---------------------------- MODULE Spec2Model ----------------------------
(***************************************************************************)
(* FableForge: the Memory Jar recall subsystem (src/src/lib/vectorDb.ts)   *)
(* over the memory_embeddings table and the match_memories function of the *)
(* database schema (src/unnamed/part_000, src/unnamed/part_001).           *)
(*                                                                         *)
(* Numbers.  A JavaScript number / SQL FLOAT x is modelled as the integer  *)
(* floor(x * One): fixed point with One = 1.0.  Similarities, thresholds   *)
(* and vector components are all in this unit.                             *)
(*                                                                         *)
(* Text.  A string is the sequence of its characters, each a one-character *)
(* string, so that lower-casing, stripping, splitting and hashing are      *)
(* computed the way the code computes them.                                *)
(*                                                                         *)
(* Vectors.  A vector is [dim, at]: its length, and the function from the  *)
(* indices of its non-zero components to their values.                     *)
(***************************************************************************)
EXTENDS Integers, Sequences, FiniteSets, TLC

\* 1.0 in the fixed-point unit.
One == 1000

\* vectorDb.ts:78, the length of the fallback embedding.
dimensions == 384

\* part_000:229, embedding vector(384); part_000:256, query_embedding vector(384).
VectorDim == 384

Min(a, b) == IF a < b THEN a ELSE b
Max(a, b) == IF a > b THEN a ELSE b

RECURSIVE IsqrtIter(_, _)
IsqrtIter(n, x) ==
    LET y == (x + n \div x) \div 2
    IN IF y >= x THEN x ELSE IsqrtIter(n, y)

\* Math.sqrt, floored.
Isqrt(n) == IF n = 0 THEN 0 ELSE IsqrtIter(n, n)

RECURSIVE SumSeq(_)
SumSeq(s) == IF s = <<>> THEN 0 ELSE Head(s) + SumSeq(Tail(s))

RECURSIVE SetToSeq(_)
SetToSeq(S) ==
    IF S = {} THEN <<>>
    ELSE LET x == CHOOSE y \in S : \A z \in S : y <= z
         IN <<x>> \o SetToSeq(S \ {x})

Range(s) == {s[i] : i \in DOMAIN s}

(***************************************************************************)
(* Characters and strings.                                                 *)
(***************************************************************************)
LowerChars ==
    <<"a","b","c","d","e","f","g","h","i","j","k","l","m",
      "n","o","p","q","r","s","t","u","v","w","x","y","z">>
UpperChars ==
    <<"A","B","C","D","E","F","G","H","I","J","K","L","M",
      "N","O","P","Q","R","S","T","U","V","W","X","Y","Z">>
DigitChars == <<"0","1","2","3","4","5","6","7","8","9">>

IndexOf(seq, c) == CHOOSE i \in DOMAIN seq : seq[i] = c

\* String.prototype.charCodeAt for the characters \w keeps.
charCodeAt(c) ==
    IF c \in Range(LowerChars) THEN 96 + IndexOf(LowerChars, c)
    ELSE IF c \in Range(UpperChars) THEN 64 + IndexOf(UpperChars, c)
    ELSE IF c \in Range(DigitChars) THEN 47 + IndexOf(DigitChars, c)
    ELSE 95

\* toLowerCase left out: the character as it is.
toLowerCharIdentity(c) == c

\* String.prototype.toLowerCase, one character.
toLowerChar(c) ==
    IF c \in Range(UpperChars) THEN LowerChars[IndexOf(UpperChars, c)] ELSE c

toLowerCase(text) == [i \in DOMAIN text |-> toLowerChar(text[i])]

\* The regular-expression classes \w and \s.
IsWordChar(c) ==
    c \in Range(LowerChars) \cup Range(UpperChars) \cup Range(DigitChars) \cup {"_"}
IsSpace(c) == c \in {" ", "\t", "\n"}

\* text.replace(/[^\w\s]/g, "")
stripPunctuation(text) == SelectSeq(text, LAMBDA c : IsWordChar(c) \/ IsSpace(c))

RECURSIVE SplitFrom(_, _, _, _)
SplitFrom(s, i, cur, acc) ==
    IF i > Len(s) THEN Append(acc, cur)
    ELSE IF IsSpace(s[i])
         THEN IF i > 1 /\ IsSpace(s[i - 1])
              THEN SplitFrom(s, i + 1, cur, acc)
              ELSE SplitFrom(s, i + 1, <<>>, Append(acc, cur))
         ELSE SplitFrom(s, i + 1, Append(cur, s[i]), acc)

\* text.split(/\s+/): the pieces between runs of white space ("" gives [""]).
splitWhitespace(s) == SplitFrom(s, 1, <<>>, <<>>)

\* vectorDb.ts:82-86, the tokens of a text.
tokenize(text) ==
    SelectSeq(splitWhitespace(stripPunctuation(toLowerCase(text))),
              LAMBDA w : Len(w) > 2)

RECURSIVE Join(_)
\* The characters of a word as one string (the key of a table lookup).
Join(w) == IF w = <<>> THEN "" ELSE Head(w) \o Join(Tail(w))

\* text.includes(c)
includes(text, c) == \E i \in DOMAIN text : text[i] = c

(***************************************************************************)
(* The fallback embedding, vectorDb.ts:77-196.                             *)
(***************************************************************************)
semanticCategories ==
    [happy |-> <<0, 1, 2>>, joy |-> <<0, 1, 3>>, smile |-> <<1, 2, 4>>,
     laugh |-> <<2, 3, 5>>, brave |-> <<10, 11, 12>>, courage |-> <<10, 11, 13>>,
     fear |-> <<15, 16, 17>>, kind |-> <<20, 21, 22>>, love |-> <<20, 22, 23>>,
     friend |-> <<25, 26, 27>>,
     play |-> <<50, 51, 52>>, run |-> <<53, 54, 55>>, jump |-> <<56, 57, 58>>,
     learn |-> <<60, 61, 62>>, read |-> <<63, 64, 65>>, draw |-> <<66, 67, 68>>,
     swim |-> <<70, 71, 72>>, bike |-> <<73, 74, 75>>, climb |-> <<76, 77, 78>>,
     beach |-> <<100, 101, 102>>, ocean |-> <<100, 103, 104>>, sand |-> <<101, 105>>,
     forest |-> <<110, 111, 112>>, tree |-> <<110, 113>>, garden |-> <<115, 116>>,
     park |-> <<120, 121, 122>>, adventure |-> <<125, 126, 127>>,
     explore |-> <<128, 129>>,
     mom |-> <<150, 151>>, mother |-> <<150, 152>>, dad |-> <<155, 156>>,
     father |-> <<155, 157>>, family |-> <<160, 161, 162>>,
     brother |-> <<165, 166>>, sister |-> <<167, 168>>, grandma |-> <<170, 171>>,
     grandpa |-> <<172, 173>>, pet |-> <<175, 176>>, dog |-> <<177>>,
     cat |-> <<178>>,
     summer |-> <<200, 201, 202>>, winter |-> <<205, 206, 207>>,
     spring |-> <<210, 211>>, fall |-> <<215, 216>>, autumn |-> <<215, 217>>,
     birthday |-> <<220, 221, 222>>, holiday |-> <<225, 226, 227>>,
     christmas |-> <<225, 228>>, first |-> <<230, 231>>,
     school |-> <<250, 251, 252>>, celebrate |-> <<255, 256>>,
     graduation |-> <<258, 259>>, tooth |-> <<260, 261>>, walk |-> <<265, 266>>,
     talk |-> <<268, 269>>, new |-> <<270, 271>>]

\* semanticCategories is an object literal: a lookup of a key it does not own
\* goes on to Object.prototype.  These are the keys found there that a token
\* (lower case, \w characters, longer than 2) can spell; their values are
\* truthy and not iterable.
ObjectPrototypeKeys == {"constructor", "__proto__"}

\* vectorDb.ts:161, const dims = semanticCategories[word]
lookupDims(word) ==
    IF Join(word) \in DOMAIN semanticCategories
    THEN [kind |-> "dims", dims |-> semanticCategories[Join(word)]]
    ELSE IF Join(word) \in ObjectPrototypeKeys
         THEN [kind |-> "notIterable"]
         ELSE [kind |-> "undefined"]

\* vectorDb.ts:162-166: `for (const dim of dims)` throws a TypeError when dims
\* is truthy and not iterable.
lookupThrows(words) ==
    \E k \in DOMAIN words : lookupDims(words[k]).kind = "notIterable"

\* ToInt32(31 * h + c), computed in 16-bit halves so that no intermediate
\* value leaves the 32-bit range.
hashStep(h, c) ==
    LET lo  == h % 65536
        hi  == h \div 65536
        t   == 31 * lo + c
        lo2 == t % 65536
        hi2 == (31 * hi + t \div 65536) % 65536
        hi3 == IF hi2 >= 32768 THEN hi2 - 65536 ELSE hi2
    IN hi3 * 65536 + lo2

RECURSIVE hashFrom(_, _, _)
hashFrom(word, i, h) ==
    IF i > Len(word) THEN h
    ELSE hashFrom(word, i + 1, hashStep(h, charCodeAt(word[i])))

\* vectorDb.ts:169-173: hash = (hash << 5) - hash + charCode; hash = hash & hash
wordHash(word) == hashFrom(word, 1, 0)

\* hash % 84 without Math.abs: the remainder takes the sign of the hash.
absMod84Signed(h) == IF h >= 0 \/ h % 84 = 0 THEN h % 84 ELSE (h % 84) - 84

\* Math.abs(hash) % 84; Math.abs(-2^31) is 2^31 in JavaScript.
absMod84(h) == IF h >= 0 THEN h % 84 ELSE (84 - (h % 84)) % 84

\* vectorDb.ts:174
baseDim(word) == 300 + absMod84(wordHash(word))

\* vectorDb.ts:160-176, the value the loop leaves at index i.
accumulated(words, i) ==
    SumSeq([k \in DOMAIN words |->
              (IF lookupDims(words[k]).kind = "dims"
                  /\ i \in Range(lookupDims(words[k]).dims)
               THEN One ELSE 0)
              + (IF baseDim(words[k]) = i THEN One \div 2 ELSE 0)])

\* vectorDb.ts:160-183, the vector before normalisation, at index i: the four
\* text characteristics are assigned after the loop and overwrite what it left.
preNormal(text, i) ==
    LET words == tokenize(text)
    IN CASE i = 380 -> Min((Len(words) * One) \div 20, One)
         [] i = 381 -> IF includes(text, "!") THEN One ELSE 0
         [] i = 382 -> IF includes(text, "?") THEN One ELSE 0
         [] i = 383 -> (Len(SelectSeq(words, LAMBDA w : Len(w) > 6)) * One)
                          \div Max(Len(words), 1)
         [] OTHER -> accumulated(words, i)

\* The indices the code can have written for this text.
touched(text) ==
    LET words == tokenize(text)
    IN UNION {IF lookupDims(words[k]).kind = "dims"
              THEN Range(lookupDims(words[k]).dims) ELSE {} : k \in DOMAIN words}
       \cup {baseDim(words[k]) : k \in DOMAIN words}
       \cup {380, 381, 382, 383}

\* vectorDb.ts:186-188
magnitudeOf(text) ==
    Isqrt(SumSeq([k \in 1..Cardinality(touched(text)) |->
             LET v == preNormal(text, SetToSeq(touched(text))[k]) IN v * v]))

\* Math.sin(x), x in thousandths of a radian, by Bhaskara's approximation.
Pi == 3142
sinMilli(x) ==
    LET r == x % (2 * Pi)
        s == IF r > Pi THEN r - Pi ELSE r
        p == s * (Pi - s)
        v == (16 * p * 10) \div ((5 * Pi * Pi - 4 * p) \div 100)
    IN IF r > Pi THEN -v ELSE v

\* vectorDb.ts:195, Math.sin(i * 0.1) * 0.01
sinePattern(i) == (sinMilli(100 * i) * One) \div 100000

Sparse(f) == [i \in {j \in DOMAIN f : f[j] # 0} |-> f[i]]

\* The text with nothing to normalise given its vector back as it is, every
\* component 0.
generateSemanticMockEmbeddingAllZero(text) ==
    IF lookupThrows(tokenize(text)) THEN [threw |-> TRUE]
    ELSE LET magnitude == magnitudeOf(text)
         IN IF magnitude > 0
            THEN [threw |-> FALSE,
                  vec |-> [dim |-> dimensions,
                           at |-> Sparse([i \in touched(text) |->
                                     (preNormal(text, i) * One) \div magnitude])]]
            ELSE [threw |-> FALSE,
                  vec |-> [dim |-> dimensions,
                           at |-> Sparse([i \in 0..(dimensions - 1) |-> 0])]]

\* vectorDb.ts:77-196.  The result is a vector, or the TypeError thrown by the
\* keyword loop.
generateSemanticMockEmbedding(text) ==
    IF lookupThrows(tokenize(text)) THEN [threw |-> TRUE]
    ELSE LET magnitude == magnitudeOf(text)
         IN IF magnitude > 0
            THEN [threw |-> FALSE,
                  vec |-> [dim |-> dimensions,
                           at |-> Sparse([i \in touched(text) |->
                                     (preNormal(text, i) * One) \div magnitude])]]
            ELSE [threw |-> FALSE,
                  vec |-> [dim |-> dimensions,
                           at |-> Sparse([i \in 0..(dimensions - 1) |->
                                            sinePattern(i)])]]

(***************************************************************************)
(* Texts of the model.                                                     *)
(***************************************************************************)
QueryBeachStory ==
    <<"a"," ","b","e","a","c","h"," ","a","d","v","e","n","t","u","r","e"," ",
      "s","t","o","r","y"," ","f","o","r"," ","a"," ","c","h","i","l","d">>
CaptionFirstDay ==
    <<"F","i","r","s","t"," ","d","a","y"," ","a","t"," ","t","h","e"," ",
      "b","e","a","c","h",","," ","b","u","i","l","d","i","n","g"," ",
      "s","a","n","d","c","a","s","t","l","e","s">>
CaptionBeachAdventure ==
    <<"A"," ","b","e","a","c","h"," ","a","d","v","e","n","t","u","r","e","!">>
CaptionConstructor ==
    <<"L","e","g","o"," ","c","o","n","s","t","r","u","c","t","o","r">>

(***************************************************************************)
(* Bounds and input sets.                                                  *)
(***************************************************************************)
\* The most rows the model lets memory_embeddings hold.
MaxRows == 2
\* The most rows the model lets memories hold.
MaxMemories == 2
MaxStoreCalls == 2

NULL == "NULL"
Users == {"U1", "U2"}
Months == {6}
Years == {2023, 2024}

\* Captions a memory is saved with, and texts embedded directly.
Captions == {CaptionFirstDay, CaptionBeachAdventure, CaptionConstructor}
\* Captions of the rows the recall path reads.
RowCaptions == {CaptionFirstDay, CaptionBeachAdventure}
\* Captions of the memories saved on the write path.
SavedCaptions == {CaptionFirstDay, CaptionConstructor}
\* part_008:100, new Date().getFullYear() at the time of the run.
CurrentYear == 2024
\* Query texts of the recall path.
Queries == {QueryBeachStory, CaptionConstructor}

\* Themes buildNarrativeContext is called with.
ThemeBeach == <<"b","e","a","c","h">>
ThemeConstructor == <<"c","o","n","s","t","r","u","c","t","o","r">>
Themes == {ThemeBeach, ThemeConstructor}

\* vectorDb.ts:331, `A ${currentTheme} adventure story for a child`.
narrativeQuery(currentTheme) ==
    <<"A"," ">> \o currentTheme \o
    <<" ","a","d","v","e","n","t","u","r","e"," ","s","t","o","r","y"," ",
      "f","o","r"," ","a"," ","c","h","i","l","d">>

\* Texts for which the fallback leaves every component 0 before it
\* normalises: the empty string, and words too short to count.
EmptyText == <<>>
ShortWordsText == <<"a"," ","b","c">>
DegenerateTexts == {EmptyText, ShortWordsText}

\* Texts generateEmbedding is called with.
EmbedTexts == Captions \cup Queries \cup DegenerateTexts

\* generateSemanticMockEmbedding, tabulated for the texts of the model.
MockEmbeddingOf ==
    [t \in Captions \cup RowCaptions \cup Queries \cup DegenerateTexts
            \cup {narrativeQuery(th) : th \in Themes}
       |-> generateSemanticMockEmbedding(t)]

\* magnitudeOf, tabulated for the texts generateEmbedding is called with.
MagnitudeOf == [t \in EmbedTexts |-> magnitudeOf(t)]

\* What the embeddings endpoint may answer with when it answers 200 with an
\* embedding: the code sends no `dimensions`, and returns the vector as it
\* is, whatever its number of components and its length.
FittingProviderVector == [dim |-> 384, at |-> (100 :> 600 @@ 125 :> 800)]
ProviderVectors ==
    {FittingProviderVector,
     [dim |-> 1536, at |-> (100 :> 600 @@ 1200 :> 800)],
     [dim |-> 384, at |-> (100 :> 1200 @@ 125 :> 1600)]}

\* The outcomes of the fetch of vectorDb.ts:42-60.
ProviderFailures == {"network_error", "non_2xx", "malformed_json", "no_embedding"}
ProviderOutcomes ==
    {[kind |-> "ok", embedding |-> v] : v \in ProviderVectors}
    \cup {[kind |-> k] : k \in ProviderFailures}

\* The outcomes of a request to the store: it reaches the database, which
\* then decides; the client returns an error (table or function missing,
\* store unreachable); the client throws.
StoreOutcomes == {"reached", "error", "throw"}

\* vectorDb.ts:251, the defaults of the options.
DefaultLimit == 5
DefaultMinSimilarity == (7 * One) \div 10
\* A record with no fields: an options object with nothing set, a row with
\* every nullable column NULL.  A field that is absent is undefined / NULL.
NoFields == <<>>

\* The options a caller may pass: each of the three set or left out.
LimitOptions == {NoFields, [limit |-> 1]}
MinSimilarityOptions ==
    {NoFields, [minSimilarity |-> One \div 10], [minSimilarity |-> (8 * One) \div 10]}
YearFilterOptions == {NoFields, [yearFilter |-> 2024]}
\* vectorDb.ts:328, the optional year of buildNarrativeContext.
YearArguments == {NoFields, [year |-> 2024]}

(***************************************************************************)
(* The state.                                                              *)
(***************************************************************************)
VARIABLES
    apiKey,             \* whether OPENAI_API_KEY is set (vectorDb.ts:11)
    memories,           \* public.memories, in insertion order
    memory_embeddings,  \* public.memory_embeddings, in insertion order
    pending,            \* storeMemoryEmbedding calls started and not awaited
    inflight,           \* storeMemoryEmbedding calls at an await, with the
                        \* outcome their embedding request meets
    storeCalls,         \* per memory, the storeMemoryEmbedding calls completed
    ret,                \* the call that has just completed, with what it
                        \* returned, until its caller takes the result
    users,              \* auth.users, the accounts that exist
    books,              \* public.books, by id
    orders,             \* public.orders, in insertion order
    deliveries,         \* per Lemon Squeezy order, the order_created events
                        \* the webhook has answered
    step,               \* CheckoutPage.tsx:31, the step of the wizard
    tier,               \* CheckoutPage.tsx:29, the tier selected
    shippingAddress     \* CheckoutPage.tsx:32-40

\* The tables and the page the Memory Jar functions do not touch.
shopVars == <<books, orders, deliveries>>
checkoutVars == <<step, tier, shippingAddress>>

vars == <<apiKey, memories, memory_embeddings, pending, inflight, storeCalls, ret, users, shopVars, checkoutVars>>

(***************************************************************************)
(* generateEmbedding, vectorDb.ts:38-71.                                   *)
(***************************************************************************)
\* The fallback drawing on a seed that moves with the state of the program,
\* here the number of memories saved so far.
generateEmbeddingSeeded(text, key, outcome) ==
    IF key /\ outcome.kind = "ok"
    THEN [status |-> "resolved", value |-> outcome.embedding]
    ELSE LET mock == MockEmbeddingOf[text]
         IN IF mock.threw THEN [status |-> "rejected"]
            ELSE [status |-> "resolved",
                  value |-> [dim |-> mock.vec.dim,
                             at |-> (0 :> (1 + Len(memories))) @@ mock.vec.at]]

\* key: whether OPENAI_API_KEY is set; outcome: what the fetch did.
generateEmbedding(text, key, outcome) ==
    IF key /\ outcome.kind = "ok"
    THEN [status |-> "resolved", value |-> outcome.embedding]
    ELSE LET mock == MockEmbeddingOf[text]
         IN IF mock.threw THEN [status |-> "rejected"]
            ELSE [status |-> "resolved", value |-> mock.vec]

(***************************************************************************)
(* The database: part_001:96-119 (memories), part_000:225-281              *)
(* (memory_embeddings, match_memories).                                    *)
(***************************************************************************)
RECURSIVE SumOver(_, _)
SumOver(f, S) ==
    IF S = {} THEN 0
    ELSE LET i == CHOOSE j \in S : TRUE IN f[i] + SumOver(f, S \ {i})

dotProduct(a, b) ==
    LET common == DOMAIN a.at \cap DOMAIN b.at
    IN SumOver([i \in common |-> a.at[i] * b.at[i]], common)

norm(a) == Isqrt(dotProduct(a, a))

\* vectorDb.ts:377-391, cosineSimilarity: each result of an operation is a
\* number of the model's precision, as each is a double in the code; 0 / 0
\* is NaN.
cosineSimilarity(a, b) ==
    IF a.dim # b.dim THEN [kind |-> "number", value |-> 0]
    ELSE LET normA == dotProduct(a, a)
             normB == dotProduct(b, b)
             denominator == Isqrt(normA) * Isqrt(normB)
         IN IF denominator = 0 THEN [kind |-> "NaN"]
            ELSE [kind |-> "number",
                  value |-> (dotProduct(a, b) * One) \div denominator]

\* pgvector's a <=> b, the cosine distance 1 - a.b / (|a| |b|).
cosineDistance(a, b) == One - (dotProduct(a, b) * One) \div (norm(a) * norm(b))

\* part_000:225-236 and 251-252: what an INSERT of `row` by `session` meets,
\* in the order PostgreSQL applies the checks: the vector(384) type, the WITH
\* CHECK of the INSERT policy (auth.uid() = user_id, not true of a NULL
\* user_id), NOT NULL, and the foreign key.  A column of a row is NULL when
\* the row has no such field.
insertError(session, row, mems) ==
    CASE "embedding" \in DOMAIN row /\ row.embedding.dim # VectorDim
           -> "dimension_mismatch"
      [] "user_id" \notin DOMAIN row -> "rls_violation"
      [] row.user_id # session -> "rls_violation"
      [] "content" \notin DOMAIN row -> "not_null_violation"
      [] "memory_id" \in DOMAIN row
         /\ row.memory_id \notin {mems[k].id : k \in DOMAIN mems}
           -> "foreign_key_violation"
      [] OTHER -> NULL

\* part_000:225-236: the row an INSERT of `payload` makes: the columns given,
\* id and created_at taking their defaults (both fresh), tags left out of the
\* model, the other columns left NULL.
rowOf(payload, table) ==
    payload @@ [id |-> Len(table) + 1, created_at |-> Len(table) + 1]

\* supabase.from("memory_embeddings").upsert(payload): INSERT ... ON CONFLICT
\* (id) DO UPDATE, the primary key being the conflict target when none is
\* named.  The table has no UPDATE policy, so the update of a conflicting row
\* is refused.  Gives [error, table].
upsert(session, payload, table, mems) ==
    LET row == rowOf(payload, table)
        err == insertError(session, row, mems)
    IN IF err # NULL THEN [error |-> err, table |-> table]
       ELSE IF \E k \in DOMAIN table : table[k].id = row.id
            THEN [error |-> "rls_violation", table |-> table]
            ELSE [error |-> NULL, table |-> Append(table, row)]

\* part_001:96-98, 113-114: the image_url the LEFT JOIN finds for memory_id,
\* the session seeing only its own memories.
joinedImageUrl(session, r, mems) ==
    IF "memory_id" \in DOMAIN r
       /\ \E k \in DOMAIN mems : mems[k].id = r.memory_id /\ mems[k].user_id = session
    THEN [image_url |-> (CHOOSE m \in Range(mems) : m.id = r.memory_id).image_url]
    ELSE NoFields

\* part_000:274-277 with the SELECT policy of 249-250: the rows of the WHERE.
matchCandidates(session, table, query_embedding, match_threshold, user_id_filter) ==
    {k \in DOMAIN table :
        /\ table[k].user_id = session
        /\ table[k].user_id = user_id_filter
        /\ One - cosineDistance(table[k].embedding, query_embedding) > match_threshold}

\* The ORDER BY taken the wrong way round: the rows at the greatest distance.
nearestDescending(S, table, query_embedding) ==
    {j \in S : \A i \in S :
        cosineDistance(table[j].embedding, query_embedding)
          >= cosineDistance(table[i].embedding, query_embedding)}

\* part_000:278, ORDER BY me.embedding <=> query_embedding: the rows of S that
\* may come first, those at the least distance.
nearest(S, table, query_embedding) ==
    {j \in S : \A i \in S :
        cosineDistance(table[j].embedding, query_embedding)
          <= cosineDistance(table[i].embedding, query_embedding)}

RECURSIVE orderings(_, _, _)
\* part_000:278: the orders the ORDER BY allows (rows at the same distance
\* come in either order).
orderings(S, table, query_embedding) ==
    IF S = {} THEN {<<>>}
    ELSE UNION {{<<k>> \o rest : rest \in orderings(S \ {k}, table, query_embedding)} :
                k \in nearest(S, table, query_embedding)}

\* part_000:268-273, one row of the result.
matchRow(session, r, query_embedding, mems) ==
    [caption |-> r.content,
     similarity |-> One - cosineDistance(r.embedding, query_embedding),
     month |-> r.month,
     year |-> r.year]
    @@ (IF "memory_id" \in DOMAIN r THEN [memory_id |-> r.memory_id] ELSE NoFields)
    @@ joinedImageUrl(session, r, mems)

\* part_000:255-281, match_memories: the results it may return.
match_memories(session, table, mems, query_embedding, match_threshold, match_count, user_id_filter) ==
    {[i \in 1..Min(match_count, Len(o)) |->
         matchRow(session, table[o[i]], query_embedding, mems)] :
       o \in orderings(matchCandidates(session, table, query_embedding,
                                       match_threshold, user_id_filter),
                       table, query_embedding)}

(***************************************************************************)
(* findSimilarMemories, vectorDb.ts:242-319.                               *)
(***************************************************************************)
\* vectorDb.ts:289-319
getDemoSimilarMemories ==
    <<[memoryId |-> "demo-1",
       caption |->
         <<"F","i","r","s","t"," ","d","a","y"," ","a","t"," ","t","h","e",
           " ","b","e","a","c","h",","," ","b","u","i","l","d","i","n","g",
           " ","s","a","n","d","c","a","s","t","l","e","s"," ","w","i","t",
           "h"," ","D","a","d">>,
       imageUrl |-> "https://images.unsplash.com/photo-1507525428034-b723cf961d3e?w=400",
       similarity |-> (92 * One) \div 100, month |-> 6, year |-> 2024],
      [memoryId |-> "demo-2",
       caption |->
         <<"L","e","a","r","n","i","n","g"," ","t","o"," ","r","i","d","e",
           " ","a"," ","b","i","k","e"," ","i","n"," ","t","h","e"," ","p",
           "a","r","k">>,
       imageUrl |-> "https://images.unsplash.com/photo-1558618666-fcd25c85cd64?w=400",
       similarity |-> (85 * One) \div 100, month |-> 4, year |-> 2024],
      [memoryId |-> "demo-3",
       caption |->
         <<"B","i","r","t","h","d","a","y"," ","p","a","r","t","y"," ","w",
           "i","t","h"," ","f","r","i","e","n","d","s"," ","a","n","d"," ",
           "t","h","e"," ","b","i","g"," ","c","h","o","c","o","l","a","t",
           "e"," ","c","a","k","e">>,
       imageUrl |-> "https://images.unsplash.com/photo-1464349153735-7db50ed83c84?w=400",
       similarity |-> (78 * One) \div 100, month |-> 9, year |-> 2024]>>

\* vectorDb.ts:265-267, the .eq("year", yearFilter) put on the rpc: PostgREST
\* filters the rows the function returned.
eqYear(rows, yearFilter) ==
    IF yearFilter # 0 THEN SelectSeq(rows, LAMBDA r : r.year = yearFilter)
    ELSE rows

\* vectorDb.ts:258-269: what the awaited query builder may do: throw, or give
\* {data, error}.
rpcResults(session, table, mems, queryEmbedding, minSimilarity, limit, userId, yearFilter, storeOutcome) ==
    CASE storeOutcome = "throw" -> {[threw |-> TRUE]}
      [] storeOutcome = "error" -> {[threw |-> FALSE, error |-> "unavailable"]}
      [] OTHER ->
           IF queryEmbedding.dim # VectorDim
           THEN {[threw |-> FALSE, error |-> "dimension_mismatch"]}
           ELSE {[threw |-> FALSE, error |-> NULL,
                  data |-> eqYear(rows, yearFilter)] :
                   rows \in match_memories(session, table, mems, queryEmbedding,
                                           minSimilarity, limit, userId)}

\* The fallback forgotten on an error of the query: no rows instead.
onRpcResultEmptyOnError(r) ==
    IF r.threw THEN getDemoSimilarMemories
    ELSE IF r.error # NULL THEN <<>>
    ELSE r.data

\* vectorDb.ts:271-283: what the call returns for what the query gave.
onRpcResult(r) ==
    IF r.threw THEN getDemoSimilarMemories
    ELSE IF r.error # NULL THEN getDemoSimilarMemories
    ELSE r.data

\* vectorDb.ts:242-284: the records the call may complete with.
findSimilarMemories(session, table, mems, key, query, userId, options, providerOutcome, storeOutcome) ==
    LET limit == IF "limit" \in DOMAIN options THEN options.limit ELSE DefaultLimit
        minSimilarity == IF "minSimilarity" \in DOMAIN options
                         THEN options.minSimilarity ELSE DefaultMinSimilarity
        \* undefined and 0 are the same to `if (yearFilter)`: both are written 0
        yearFilter == IF "yearFilter" \in DOMAIN options THEN options.yearFilter ELSE 0
        emb == generateEmbedding(query, key, providerOutcome)
        call == [op |-> "find", session |-> session, userId |-> userId,
                 limit |-> limit, minSimilarity |-> minSimilarity,
                 yearFilter |-> yearFilter]
    IN IF emb.status = "rejected"
       THEN {call @@ [rpc |-> "not_called",
                      status |-> "resolved", value |-> getDemoSimilarMemories]}
       ELSE {call @@ [queryEmbedding |-> emb.value] @@
               (IF r.threw THEN [rpc |-> "throw"]
                ELSE IF r.error # NULL THEN [rpc |-> "error", error |-> r.error]
                ELSE [rpc |-> "rows", data |-> r.data]) @@
               [status |-> "resolved", value |-> onRpcResult(r)] :
              r \in rpcResults(session, table, mems, emb.value, minSimilarity,
                               limit, userId, yearFilter, storeOutcome)}

(***************************************************************************)
(* buildNarrativeContext, vectorDb.ts:325-372.                             *)
(***************************************************************************)
\* vectorDb.ts:357-370
months ==
    <<"January", "February", "March", "April", "May", "June", "July",
      "August", "September", "October", "November", "December">>

\* The array of months counted from 1.
getMonthNameCountedFromOne(month) ==
    IF month \in 1..Len(months) THEN months[month] ELSE "Unknown"

\* vectorDb.ts:356-372: months[month] || "Unknown", the array counted from 0.
getMonthName(month) ==
    IF month \in 0..(Len(months) - 1) THEN months[month + 1] ELSE "Unknown"

RECURSIVE joinLines(_)
\* vectorDb.ts:342, .join("\n")
joinLines(lines) ==
    IF lines = <<>> THEN ""
    ELSE IF Len(lines) = 1 THEN lines[1]
    ELSE lines[1] \o "\n" \o joinLines(Tail(lines))

\* vectorDb.ts:341, one memory's line.  A row whose month is NULL has none.
memoryLine(m, i) ==
    "[Memory " \o ToString(i + 1) \o " - "
    \o getMonthName(IF "month" \in DOMAIN m THEN m.month ELSE -1)
    \o "]: " \o Join(m.caption)

RECURSIVE trimPieces(_)
\* vectorDb.ts:350, .trim(), on a text given as pieces each of which is all
\* white space or has none at either end.
trimPieces(pieces) ==
    IF pieces = <<>> THEN ""
    ELSE IF pieces[1] \in {"\n", "\n  ", ""} THEN trimPieces(Tail(pieces))
    ELSE IF pieces[Len(pieces)] \in {"\n", "\n  ", ""}
    THEN trimPieces(SubSeq(pieces, 1, Len(pieces) - 1))
    ELSE pieces[1] \o trimPieces(Tail(pieces))

\* The text made without looking whether anything was recalled.
narrativeOfUnguarded(similarMemories) ==
    LET memoryContext ==
            joinLines([i \in 1..Len(similarMemories) |->
                         memoryLine(similarMemories[i], i - 1)])
    IN trimPieces(<<"\n",
         "The following are real memories from this child's year that should be woven into the story:",
         "\n\n", memoryContext, "\n\n",
         "Use these memories naturally within the narrative to create a personalized story that references real experiences.",
         "\n  ">>)

\* vectorDb.ts:336-350: the text made of the memories recalled.
narrativeOf(similarMemories) ==
    IF Len(similarMemories) = 0 THEN ""
    ELSE LET memoryContext ==
                 joinLines([i \in 1..Len(similarMemories) |->
                              memoryLine(similarMemories[i], i - 1)])
         IN trimPieces(<<"\n",
              "The following are real memories from this child's year that should be woven into the story:",
              "\n\n", memoryContext, "\n\n",
              "Use these memories naturally within the narrative to create a personalized story that references real experiences.",
              "\n  ">>)

\* The exception of the store's query let through to the caller.
contextOutcomeQueryThrowEscapes(f) ==
    IF f.status = "rejected" \/ f.rpc = "throw" THEN [status |-> "rejected"]
    ELSE [status |-> "resolved", value |-> narrativeOf(f.value)]

\* vectorDb.ts:330-350: awaiting findSimilarMemories, then the text.
contextOutcome(f) ==
    IF f.status = "rejected" THEN [status |-> "rejected"]
    ELSE [status |-> "resolved", value |-> narrativeOf(f.value)]

\* vectorDb.ts:325-351: the records the call may complete with.  year is
\* NoFields when the argument is left out.
buildNarrativeContext(session, table, mems, key, userId, currentTheme, year, providerOutcome, storeOutcome) ==
    {[op |-> "context", session |-> session, userId |-> userId,
      currentTheme |-> currentTheme, find |-> f] @@ contextOutcome(f) :
       f \in findSimilarMemories(session, table, mems, key,
                narrativeQuery(currentTheme), userId,
                [limit |-> 5] @@
                  (IF "year" \in DOMAIN year THEN [yearFilter |-> year.year] ELSE NoFields),
                providerOutcome, storeOutcome)}

(***************************************************************************)
(* storeMemoryEmbedding, vectorDb.ts:201-236.                              *)
(***************************************************************************)
\* The {error} of the upsert not looked at.
storeResultIgnoringError(error) == TRUE

\* vectorDb.ts:223-234: the boolean returned for the {error} of the upsert.
storeResult(error) == error = NULL

\* vectorDb.ts:201-236: the record the call completes with and the table it
\* leaves.  tags is left out of the model.
storeMemoryEmbedding(session, table, mems, key, memoryId, caption, month, year, providerOutcome, storeOutcome) ==
    LET embedding == generateEmbedding(caption, key, providerOutcome)
        call == [op |-> "store", session |-> session, memoryId |-> memoryId,
                 caption |-> caption, status |-> "resolved"]
        payload == [memory_id |-> memoryId, embedding |-> embedding.value,
                    content |-> caption, month |-> month, year |-> year]
    IN IF embedding.status = "rejected"
       THEN [ret |-> call @@ [upsert |-> "not_called", value |-> FALSE],
             table |-> table]
       ELSE IF storeOutcome = "throw"
       THEN [ret |-> call @@ [payload |-> payload, upsert |-> "throw", value |-> FALSE],
             table |-> table]
       ELSE LET res == IF storeOutcome = "error"
                       THEN [error |-> "unavailable", table |-> table]
                       ELSE upsert(session, payload, table, mems)
            IN [ret |-> call @@ [payload |-> payload, upsert |-> storeOutcome,
                                 error |-> res.error, value |-> storeResult(res.error)],
                table |-> res.table]

(***************************************************************************)
(* Actions of the recall path.                                             *)
(***************************************************************************)
NoCall == [op |-> "none"]

\* The books of the model, and the ids Lemon Squeezy gives its orders.
BookIds == {"book-1"}
LemonSqueezyOrderIds == {"ls-1"}

\* CheckoutPage.tsx:32-40, the address the wizard starts with.
NoAddress ==
    [name |-> "", line1 |-> "", line2 |-> "", city |-> "", state |-> "",
     postalCode |-> "", country |-> "US"]

Init ==
    /\ apiKey \in BOOLEAN
    /\ memories = <<>>
    /\ memory_embeddings = <<>>
    /\ pending = {}
    /\ inflight = {}
    /\ storeCalls = <<>>
    /\ ret = NoCall
    /\ users = Users
    /\ books = [b \in BookIds |-> [user_id |-> "U1", status |-> "ready"]]
    /\ orders = <<>>
    /\ deliveries = [o \in LemonSqueezyOrderIds |-> 0]
    /\ step = "tier"
    /\ tier = "heirloom"
    /\ shippingAddress = NoAddress

\* part_000:225-236, 251-252: a signed-in user inserts an embedding row of
\* their own, as the INSERT policy lets them.
InsertEmbeddingRow ==
    /\ ret = NoCall
    /\ Len(memory_embeddings) < MaxRows
    /\ \E session \in Users, caption \in RowCaptions, month \in Months, year \in Years :
          LET payload == [user_id |-> session,
                          embedding |-> MockEmbeddingOf[caption].vec,
                          content |-> caption, month |-> month, year |-> year]
              res == upsert(session, payload, memory_embeddings, memories)
          IN /\ res.error = NULL
             /\ memory_embeddings' = res.table
    /\ UNCHANGED <<apiKey, memories, pending, inflight, storeCalls, ret>>
    /\ UNCHANGED <<users, shopVars, checkoutVars>>

\* The provider outcomes a call can meet: none without a key.
OutcomesFor(key) == IF key THEN ProviderOutcomes ELSE {[kind |-> "not_called"]}

\* Every failure of the provider leaves findSimilarMemories at the same
\* fallback (vectorDb.ts:61-70): one failure stands for the four here.  The
\* cosine distance does not change with the length of the query vector: one
\* vector of 384 components stands for the two.
RecallOutcomesFor(key) ==
    {o \in OutcomesFor(key) :
        /\ o.kind \in {"ok", "not_called", "network_error"}
        /\ o.kind = "ok" /\ o.embedding.dim = VectorDim => o = [kind |-> "ok", embedding |-> FittingProviderVector]}

FindSimilarMemories ==
    /\ ret = NoCall
    /\ \E session \in Users, query \in Queries, userId \in Users,
          limit \in LimitOptions, minSimilarity \in MinSimilarityOptions,
          yearFilter \in YearFilterOptions,
          providerOutcome \in RecallOutcomesFor(apiKey), storeOutcome \in StoreOutcomes :
            ret' \in findSimilarMemories(session, memory_embeddings, memories, apiKey,
                        query, userId, limit @@ minSimilarity @@ yearFilter,
                        providerOutcome, storeOutcome)
    /\ UNCHANGED <<apiKey, memories, memory_embeddings, pending, inflight, storeCalls>>
    /\ UNCHANGED <<users, shopVars, checkoutVars>>

\* vectorDb.ts:325-351: a call of buildNarrativeContext runs to its end.
BuildNarrativeContext ==
    /\ ret = NoCall
    /\ \E session \in Users, userId \in Users, currentTheme \in Themes,
          year \in YearArguments,
          providerOutcome \in RecallOutcomesFor(apiKey), storeOutcome \in StoreOutcomes :
            ret' \in buildNarrativeContext(session, memory_embeddings, memories, apiKey,
                        userId, currentTheme, year, providerOutcome, storeOutcome)
    /\ UNCHANGED <<apiKey, memories, memory_embeddings, pending, inflight, storeCalls>>
    /\ UNCHANGED <<users, shopVars, checkoutVars>>

\* The caller takes the result of the call that completed.
Return ==
    /\ ret # NoCall
    /\ ret' = NoCall
    /\ UNCHANGED <<apiKey, memories, memory_embeddings, pending, inflight, storeCalls>>
    /\ UNCHANGED <<users, shopVars, checkoutVars>>

Next == InsertEmbeddingRow \/ FindSimilarMemories \/ BuildNarrativeContext \/ Return

Spec == Init /\ [][Next]_vars

(***************************************************************************)
(* Actions of the write path.                                              *)
(***************************************************************************)
\* handleSaveMemory with step 3 outside the test of insertError: the
\* embedding call is started whether or not the insert worked.
HandleSaveMemoryStartsEmbeddingAnyway ==
    /\ ret = NoCall
    /\ Len(storeCalls) < MaxMemories
    /\ \E session \in users, caption \in SavedCaptions, month \in Months,
          year \in {CurrentYear}, storeOutcome \in StoreOutcomes :
          LET id == Len(storeCalls) + 1
              memoryData == [id |-> id, user_id |-> session, image_url |-> <<"url", id>>,
                             caption |-> caption, month |-> month, year |-> year]
          IN /\ pending' = pending \cup
                              {[session |-> session, memoryId |-> id, caption |-> caption,
                                month |-> month, year |-> year]}
             /\ IF storeOutcome = "reached"
                THEN /\ memories' = Append(memories, memoryData)
                     /\ storeCalls' = Append(storeCalls, 0)
                     /\ ret' = [op |-> "save", session |-> session, status |-> "saved",
                                memoryId |-> id]
                ELSE /\ ret' = [op |-> "save", session |-> session, status |-> "failed"]
                     /\ UNCHANGED <<memories, storeCalls>>
    /\ UNCHANGED <<apiKey, memory_embeddings, inflight>>
    /\ UNCHANGED <<users, shopVars, checkoutVars>>

\* part_008:138-212, handleSaveMemory: the memory row is inserted and, when
\* that worked, storeMemoryEmbedding is started and not awaited.
HandleSaveMemory ==
    /\ ret = NoCall
    /\ Len(storeCalls) < MaxMemories
    /\ \E session \in users, caption \in SavedCaptions, month \in Months,
          year \in {CurrentYear}, storeOutcome \in StoreOutcomes :
          LET id == Len(storeCalls) + 1
              memoryData == [id |-> id, user_id |-> session, image_url |-> <<"url", id>>,
                             caption |-> caption, month |-> month, year |-> year]
          IN IF storeOutcome = "reached"
             THEN /\ memories' = Append(memories, memoryData)
                  /\ pending' = pending \cup
                                  {[session |-> session, memoryId |-> id, caption |-> caption,
                                    month |-> month, year |-> year]}
                  /\ storeCalls' = Append(storeCalls, 0)
                  /\ ret' = [op |-> "save", session |-> session, status |-> "saved",
                             memoryId |-> id]
             ELSE /\ ret' = [op |-> "save", session |-> session, status |-> "failed"]
                  /\ UNCHANGED <<memories, pending, storeCalls>>
    /\ UNCHANGED <<apiKey, memory_embeddings, inflight>>
    /\ UNCHANGED <<users, shopVars, checkoutVars>>

\* The calls of storeMemoryEmbedding for the memories saved: the one
\* handleSaveMemory started, then the same call made again.
StoreCallsOf(mems) ==
    {[session |-> m.user_id, memoryId |-> m.id, caption |-> m.caption,
      month |-> m.month, year |-> m.year] : m \in Range(mems)}

\* vectorDb.ts:201-236: a call of storeMemoryEmbedding runs to its end.
StoreMemoryEmbedding ==
    /\ ret = NoCall
    /\ \E call \in StoreCallsOf(memories),
          providerOutcome \in OutcomesFor(apiKey), storeOutcome \in StoreOutcomes :
          LET res == storeMemoryEmbedding(call.session, memory_embeddings, memories,
                         apiKey, call.memoryId, call.caption, call.month, call.year,
                         providerOutcome, storeOutcome)
          IN /\ storeCalls[call.memoryId] < MaxStoreCalls
             /\ ret' = res.ret
             /\ memory_embeddings' = res.table
             /\ pending' = pending \ {call}
             /\ storeCalls' = [storeCalls EXCEPT ![call.memoryId] = @ + 1]
    /\ UNCHANGED <<apiKey, memories, inflight>>
    /\ UNCHANGED <<users, shopVars, checkoutVars>>

\* vectorDb.ts:38-71: a call of generateEmbedding runs to its end.
GenerateEmbedding ==
    /\ ret = NoCall
    /\ \E text \in EmbedTexts, providerOutcome \in OutcomesFor(apiKey) :
          ret' = [op |-> "embed", text |-> text, provider |-> providerOutcome.kind]
                 @@ generateEmbedding(text, apiKey, providerOutcome)
    /\ UNCHANGED <<apiKey, memories, memory_embeddings, pending, inflight, storeCalls>>
    /\ UNCHANGED <<users, shopVars, checkoutVars>>

NextStore == HandleSaveMemory \/ StoreMemoryEmbedding \/ GenerateEmbedding \/ Return

SpecStore == Init /\ [][NextStore]_vars

(***************************************************************************)
(* Actions of the write path with calls that overlap.                      *)
(***************************************************************************)
\* The calls in flight for memory id.
inflightOf(id) == {c \in inflight : c.memoryId = id}

\* The provider outcomes the overlapping calls meet: none without a key;
\* with one, a failure or a vector that fits the column.
ConcurrentOutcomesFor(key) ==
    {o \in OutcomesFor(key) :
        o.kind = "ok" => o = [kind |-> "ok", embedding |-> FittingProviderVector]}

\* vectorDb.ts:201-209: a call of storeMemoryEmbedding starts and comes to
\* its first await, other calls being free to run meanwhile.  Calls for
\* different memories touch different rows: the model lets calls overlap
\* for one memory at a time.
StoreBegin ==
    /\ ret = NoCall
    /\ \E call \in StoreCallsOf(memories), providerOutcome \in ConcurrentOutcomesFor(apiKey) :
          LET others == inflightOf(call.memoryId)
              started == storeCalls[call.memoryId] + Cardinality(others)
          IN /\ started < MaxStoreCalls
             /\ inflight = others
             /\ inflight' = {[c EXCEPT !.overlapped = TRUE] : c \in others} \cup
                   {call @@ [n |-> started + 1, providerOutcome |-> providerOutcome,
                             overlapped |-> others # {}]}
             /\ pending' = pending \ {call}
    /\ UNCHANGED <<apiKey, memories, memory_embeddings, storeCalls, ret>>
    /\ UNCHANGED <<users, shopVars, checkoutVars>>

\* vectorDb.ts:209-235: a call in flight gets its embedding, makes its upsert
\* on the table as it is by then, and returns.
StoreComplete ==
    /\ ret = NoCall
    /\ \E c \in inflight, storeOutcome \in StoreOutcomes :
          LET res == storeMemoryEmbedding(c.session, memory_embeddings, memories,
                         apiKey, c.memoryId, c.caption, c.month, c.year,
                         c.providerOutcome, storeOutcome)
          IN /\ ret' = res.ret @@ [overlapped |-> c.overlapped]
             /\ memory_embeddings' = res.table
             /\ inflight' = inflight \ {c}
             /\ storeCalls' = [storeCalls EXCEPT ![c.memoryId] = @ + 1]
    /\ UNCHANGED <<apiKey, memories, pending>>
    /\ UNCHANGED <<users, shopVars, checkoutVars>>

NextConcurrent == HandleSaveMemory \/ StoreBegin \/ StoreComplete \/ Return

SpecConcurrent == Init /\ [][NextConcurrent]_vars

(***************************************************************************)
(* Actions applying cosineSimilarity.                                      *)
(***************************************************************************)
\* The vector opposite to v.
negated(v) == [dim |-> v.dim, at |-> [i \in DOMAIN v.at |-> 0 - v.at[i]]]

\* The normalized vectors cosineSimilarity is given: those generateEmbedding
\* returns for the texts of the model that are not degenerate, the vectors
\* of unit length from the provider, and the opposite of one of them.
NormalizedVectors ==
    {MockEmbeddingOf[t].vec :
        t \in {u \in EmbedTexts \ DegenerateTexts : ~MockEmbeddingOf[u].threw}}
    \cup {v \in ProviderVectors : dotProduct(v, v) = One * One}
    \cup {negated(FittingProviderVector)}

\* vectorDb.ts:377-391: a call of cosineSimilarity.
CosineSimilarity ==
    /\ ret = NoCall
    /\ \E a \in NormalizedVectors, b \in NormalizedVectors :
          ret' = [op |-> "cosine", a |-> a, b |-> b] @@ cosineSimilarity(a, b)
    /\ UNCHANGED <<apiKey, memories, memory_embeddings, pending, inflight, storeCalls>>
    /\ UNCHANGED <<users, shopVars, checkoutVars>>

NextSimilarity == GenerateEmbedding \/ CosineSimilarity \/ Return

SpecSimilarity == Init /\ [][NextSimilarity]_vars

(***************************************************************************)
(* Actions on the fallback embedding alone: the hash bucket of one token,  *)
(* and generateSemanticMockEmbedding on one text.                          *)
(***************************************************************************)
\* vectorDb.ts:179-183, the indices of the four text characteristics.
FeatureIndices == {380, 381, 382, 383}

\* The indices the keyword table names, vectorDb.ts:89-157.
keywordIndices ==
    UNION {Range(semanticCategories[w]) : w \in DOMAIN semanticCategories}

\* Tokens whose rolling hash leaves the 32-bit range: the hash of
\* "polygenelubricants" is -2^31, those of "sandcastles", "adventure" and
\* "kitten" are negative.
WordPolygenelubricants == <<"p","o","l","y","g","e","n","e","l","u","b","r","i","c","a","n","t","s">>
WordSandcastles == <<"s","a","n","d","c","a","s","t","l","e","s">>
WordAdventure == <<"a","d","v","e","n","t","u","r","e">>
WordKitten == <<"k","i","t","t","e","n">>
WordPet == <<"p","e","t">>
LongWords == {WordPolygenelubricants, WordSandcastles, WordAdventure, WordKitten, WordPet}

\* The characters the short tokens are made of, and their length.
HashAlphabet == {"a", "z", "_", "9"}
ShortWordLen == 3
ShortWords == [1..ShortWordLen -> HashAlphabet]

\* The tokens the hash is computed for.
HashWords == ShortWords \cup LongWords

\* Texts given to generateSemanticMockEmbedding, some of them differing in
\* letter case only.
TextBeachTitle == <<"A"," ","b","e","a","c","h"," ","a","d","v","e","n","t","u","r","e","!">>
TextBeachLower == <<"a"," ","b","e","a","c","h"," ","a","d","v","e","n","t","u","r","e","!">>
TextBeachUpper == <<"A"," ","B","E","A","C","H"," ","A","D","V","E","N","T","U","R","E","!">>
TextPetKitten == <<"M","y"," ","p","e","t"," ","k","i","t","t","e","n">>
TextPetKittenUpper == <<"M","Y"," ","P","E","T"," ","K","I","T","T","E","N">>
TextLegoLower == <<"l","e","g","o"," ","c","o","n","s","t","r","u","c","t","o","r">>
TextLegoMixed == <<"L","E","G","O"," ","C","o","n","s","t","r","u","c","t","o","r">>
TextAnyQuestion == <<"I","s"," ","i","t"," ","a"," ","n","e","w"," ","d","a","y","?">>
FallbackTexts ==
    {TextBeachTitle, TextBeachLower, TextBeachUpper, TextPetKitten, TextPetKittenUpper,
     TextLegoLower, TextLegoMixed, TextAnyQuestion, EmptyText, ShortWordsText}

\* vectorDb.ts:168-176: the hash and the bucket of one token.
HashToken ==
    /\ ret = NoCall
    /\ \E word \in HashWords :
          ret' = [op |-> "hash", word |-> word, hash |-> wordHash(word),
                  baseDim |-> baseDim(word)]
    /\ UNCHANGED <<apiKey, memories, memory_embeddings, pending, inflight, storeCalls>>
    /\ UNCHANGED <<users, shopVars, checkoutVars>>

\* vectorDb.ts:77-196: generateSemanticMockEmbedding on one text, with the
\* tokens, their buckets and the vector before normalisation.
GenerateSemanticMockEmbedding ==
    /\ ret = NoCall
    /\ \E text \in FallbackTexts :
          LET words == tokenize(text)
              result == generateSemanticMockEmbedding(text)
          IN ret' = [op |-> "mock", text |-> text, words |-> words, result |-> result]
                    @@ (IF result.threw THEN NoFields
                        ELSE [buckets |-> [k \in DOMAIN words |-> baseDim(words[k])],
                              embedding |-> [i \in touched(text) |-> preNormal(text, i)]])
    /\ UNCHANGED <<apiKey, memories, memory_embeddings, pending, inflight, storeCalls>>
    /\ UNCHANGED <<users, shopVars, checkoutVars>>

NextFallback == HashToken \/ GenerateSemanticMockEmbedding \/ Return

SpecFallback == Init /\ [][NextFallback]_vars

(***************************************************************************)
(* Actions on the text of buildNarrativeContext alone: getMonthName on one *)
(* month, and the block made of one list of recalled memories.             *)
(***************************************************************************)
\* The months getMonthName is called with: the twelve of a year and values
\* either side of them.
MonthArguments == (0 - 1)..12

\* The months of the recalled memories; a memory recalled from a row whose
\* month is NULL has no month.
RecalledMonths == {0 - 1, 0, 6, 11, 12}
RecalledMemories ==
    {[caption |-> c, month |-> m] : c \in RowCaptions, m \in RecalledMonths}
      \cup {[caption |-> c] : c \in RowCaptions}

\* The longest list of recalled memories the text is made of.
MaxRecalled == 2
RecalledLists == UNION {[1..n -> RecalledMemories] : n \in 0..MaxRecalled}

\* vectorDb.ts:356-372: a call of getMonthName.
GetMonthName ==
    /\ ret = NoCall
    /\ \E month \in MonthArguments :
          ret' = [op |-> "month", month |-> month, value |-> getMonthName(month)]
    /\ UNCHANGED <<apiKey, memories, memory_embeddings, pending, inflight, storeCalls>>
    /\ UNCHANGED <<users, shopVars, checkoutVars>>

\* vectorDb.ts:336-350: buildNarrativeContext from the list findSimilarMemories
\* gave it.
NarrativeOf ==
    /\ ret = NoCall
    /\ \E similarMemories \in RecalledLists :
          ret' = [op |-> "narrative", similarMemories |-> similarMemories,
                  value |-> narrativeOf(similarMemories)]
    /\ UNCHANGED <<apiKey, memories, memory_embeddings, pending, inflight, storeCalls>>
    /\ UNCHANGED <<users, shopVars, checkoutVars>>

NextNarrative == GetMonthName \/ NarrativeOf \/ Return

SpecNarrative == Init /\ [][NextNarrative]_vars

(***************************************************************************)
(* Actions that delete: part_000:227-228 (ON DELETE CASCADE), part_000:253 *)
(* and part_001:118 (the DELETE policies).                                 *)
(***************************************************************************)
\* The rows left when nothing follows the deletion of a memory.
cascadeNone(table, mems) == table

\* part_000:228, memory_id REFERENCES public.memories(id) ON DELETE CASCADE:
\* the rows of table left when mems are the memories left.
cascadeMemories(table, mems) ==
    SelectSeq(table, LAMBDA r :
        "memory_id" \in DOMAIN r => \E j \in DOMAIN mems : mems[j].id = r.memory_id)

\* part_000:227 and part_001:98, user_id REFERENCES auth.users ON DELETE
\* CASCADE: the rows of table left when accounts are the accounts left.
cascadeUsers(table, accounts) == SelectSeq(table, LAMBDA r : r.user_id \in accounts)

\* part_000:225-236, 251-252: a signed-in user inserts an embedding row of
\* their own for a memory that exists, as the INSERT policy lets them.
InsertLinkedEmbeddingRow ==
    /\ ret = NoCall
    /\ Len(memory_embeddings) < MaxRows
    /\ \E session \in users, j \in DOMAIN memories :
          LET payload == [user_id |-> session, memory_id |-> memories[j].id,
                          embedding |-> FittingProviderVector,
                          content |-> memories[j].caption,
                          month |-> memories[j].month, year |-> memories[j].year]
              res == upsert(session, payload, memory_embeddings, memories)
          IN /\ res.error = NULL
             /\ memory_embeddings' = res.table
    /\ UNCHANGED <<apiKey, memories, pending, inflight, storeCalls, ret>>
    /\ UNCHANGED <<users, shopVars, checkoutVars>>

\* part_001:118: a signed-in user deletes a memory by id; the policy lets
\* the statement see their own rows only.  The embedding rows of the memory
\* go with it.
DeleteMemory ==
    /\ ret = NoCall
    /\ \E session \in users, j \in DOMAIN memories :
          LET left == IF memories[j].user_id = session
                      THEN SelectSeq(memories, LAMBDA m : m.id # memories[j].id)
                      ELSE memories
              rows == cascadeMemories(memory_embeddings, left)
          IN /\ memories' = left
             /\ memory_embeddings' = rows
             /\ ret' = [op |-> "deleteMemory", session |-> session,
                        memoryId |-> memories[j].id,
                        deleted |-> Len(memories) - Len(left),
                        cascaded |-> Len(memory_embeddings) - Len(rows)]
    /\ UNCHANGED <<apiKey, pending, inflight, storeCalls>>
    /\ UNCHANGED <<users, shopVars, checkoutVars>>

\* part_000:253: a signed-in user deletes an embedding row by id; the policy
\* lets the statement see their own rows only.
DeleteEmbedding ==
    /\ ret = NoCall
    /\ \E session \in users, k \in DOMAIN memory_embeddings :
          LET rows == IF memory_embeddings[k].user_id = session
                      THEN SelectSeq(memory_embeddings,
                                     LAMBDA r : r.id # memory_embeddings[k].id)
                      ELSE memory_embeddings
          IN /\ memory_embeddings' = rows
             /\ ret' = [op |-> "deleteEmbedding", session |-> session,
                        id |-> memory_embeddings[k].id,
                        deleted |-> Len(memory_embeddings) - Len(rows)]
    /\ UNCHANGED <<apiKey, memories, pending, inflight, storeCalls>>
    /\ UNCHANGED <<users, shopVars, checkoutVars>>

\* An account is deleted from auth.users: its memories, embedding rows, books
\* and orders go with it (part_000:227, part_001:16, 38-39, 98), and the
\* embedding rows and orders of what went.
DeleteAccount ==
    /\ ret = NoCall
    /\ \E user \in users :
          LET accounts == users \ {user}
              mems == cascadeUsers(memories, accounts)
              shelf == {b \in DOMAIN books : books[b].user_id \in accounts}
          IN /\ users' = accounts
             /\ memories' = mems
             /\ memory_embeddings' =
                    cascadeMemories(cascadeUsers(memory_embeddings, accounts), mems)
             /\ books' = [b \in shelf |-> books[b]]
             /\ orders' = SelectSeq(orders, LAMBDA o :
                                       o.user_id \in accounts /\ o.book_id \in shelf)
             /\ ret' = [op |-> "deleteAccount", user |-> user]
    /\ UNCHANGED <<apiKey, pending, inflight, storeCalls, deliveries>>
    /\ UNCHANGED checkoutVars

NextLifecycle ==
    \/ HandleSaveMemory
    \/ InsertLinkedEmbeddingRow
    \/ DeleteMemory
    \/ DeleteEmbedding
    \/ DeleteAccount
    \/ Return

SpecLifecycle == Init /\ [][NextLifecycle]_vars

(***************************************************************************)
(* The payment webhook, supabase/functions/lemonsqueezy-webhook/index.ts,  *)
(* over public.books and public.orders (part_001:14-54, part_000:182-184). *)
(***************************************************************************)
HexChars == <<"0","1","2","3","4","5","6","7","8","9","a","b","c","d","e","f">>

\* The value of a hexadecimal digit of either case, -1 for any other
\* character (parseInt(c, 16) being NaN).
hexValue(c) ==
    IF c \in Range(HexChars) THEN IndexOf(HexChars, c) - 1
    ELSE IF toLowerChar(c) \in Range(HexChars) THEN IndexOf(HexChars, toLowerChar(c)) - 1
    ELSE 0 - 1

\* hmac.digest("hex"): two lower-case digits for each byte.
toHex(bytes) ==
    [i \in 1..(2 * Len(bytes)) |->
        IF i % 2 = 1 THEN HexChars[(bytes[(i + 1) \div 2] \div 16) + 1]
        ELSE HexChars[(bytes[i \div 2] % 16) + 1]]

RECURSIVE hexPairsFrom(_, _)
hexPairsFrom(str, i) ==
    IF 2 * i > Len(str) THEN <<>>
    ELSE IF hexValue(str[2 * i - 1]) < 0 \/ hexValue(str[2 * i]) < 0 THEN <<>>
    ELSE <<16 * hexValue(str[2 * i - 1]) + hexValue(str[2 * i])>> \o hexPairsFrom(str, i + 1)

\* Buffer.from(str, "hex"), index.ts:37-38: the bytes of the pairs of digits
\* up to the first pair that is not two hexadecimal digits; a last digit
\* without its pair is dropped.
hexToBytes(str) == hexPairsFrom(str, 1)

\* The bodies of the requests.  A body is a JSON text, given by the value
\* JSON.parse makes of it, or a text that is not JSON.
BodyOrderCreated ==
    [json |-> TRUE, event_name |-> "order_created", id |-> "ls-1",
     custom_data |-> [book_id |-> "book-1", tier_id |-> "premium"],
     attributes |-> [total |-> 12000, user_email |-> "a@example.com"]]
BodyOrderCreatedDemoBook ==
    [json |-> TRUE, event_name |-> "order_created", id |-> "ls-1",
     custom_data |-> [book_id |-> "demo-1", tier_id |-> "premium"],
     attributes |-> [total |-> 12000, user_email |-> "a@example.com"]]
BodyOrderCreatedNoBook ==
    [json |-> TRUE, event_name |-> "order_created", id |-> "ls-1",
     attributes |-> [total |-> 12000, user_email |-> "a@example.com"]]
BodyOrderRefunded == [json |-> TRUE, event_name |-> "order_refunded", id |-> "ls-1"]
BodySubscriptionCreated ==
    [json |-> TRUE, event_name |-> "subscription_created", id |-> "ls-1"]
BodyNotJson == [json |-> FALSE]
WebhookBodies ==
    <<BodyOrderCreated, BodyOrderCreatedDemoBook, BodyOrderCreatedNoBook,
      BodyOrderRefunded, BodySubscriptionCreated, BodyNotJson>>

\* index.ts:33-35, createHmac("sha256", WEBHOOK_SECRET).update(payload)
\* .digest(): the model gives each body a digest of two bytes of its own.
hmacDigest(payload) == <<161, 16 * IndexOf(WebhookBodies, payload) + 11>>

\* The x-signature headers a request for `payload` may carry, other than
\* none: the digest in hexadecimal, the same in upper case, the same with
\* one digit or with two other characters after it, the digest of another
\* body, half a digest, characters that are no digits, and "".
signaturesFor(payload) ==
    LET hex == toHex(hmacDigest(payload))
        other == toHex(hmacDigest(IF payload = BodyOrderRefunded
                                  THEN BodyOrderCreated ELSE BodyOrderRefunded))
    IN {hex,
        <<"A", hex[2], hex[3], "B">>,
        hex \o <<"7">>,
        hex \o <<"z", "z">>,
        other,
        SubSeq(hex, 1, 2),
        <<"z", "z", "z", "z">>,
        <<>>}

\* The headers of a request: x-signature present or not.
headersFor(payload) == {NoFields} \cup {[signature |-> x] : x \in signaturesFor(payload)}

\* Whether the global Buffer exists where the function runs: the file uses
\* Buffer (index.ts:37-38) and does not import it.
Runtimes == {"Buffer", "no Buffer"}

\* index.ts:31-49, verifySignature.  Without Buffer the ReferenceError is
\* caught and the result is false.
verifySignature(payload, signature, runtime) ==
    IF runtime # "Buffer" THEN FALSE
    ELSE LET digestBuffer == hexToBytes(toHex(hmacDigest(payload)))
             signatureBuffer == hexToBytes(signature)
         IN IF Len(digestBuffer) # Len(signatureBuffer) THEN FALSE
            ELSE digestBuffer = signatureBuffer

\* The constraints of orders left out.
orderInsertErrorNone(row, shelf) == NULL

\* part_001:36-54 and part_000:182-184: what an INSERT of `row` into orders
\* by the service role meets (no policy applies to it): the uuid type of
\* book_id, NOT NULL, the CHECKs of tier and status, the foreign key to books.
\* The columns with a default are in `row` already.
orderInsertError(row, shelf) ==
    CASE "book_id" \in DOMAIN row /\ row.book_id \notin BookIds -> "invalid_uuid"
      [] {"book_id", "user_id", "tier", "price", "status"} \ DOMAIN row # {}
           -> "not_null_violation"
      [] row.tier \notin {"standard", "premium", "heirloom"} -> "check_violation"
      [] row.status \notin {"pending", "processing", "printed", "shipped", "delivered"}
           -> "check_violation"
      [] row.book_id \notin DOMAIN shelf -> "foreign_key_violation"
      [] OTHER -> NULL

\* supabase.from("orders").upsert(payload), index.ts:81-89: INSERT ... ON
\* CONFLICT (id) DO UPDATE; the payload has no id, the default gives a fresh
\* one and nothing conflicts.  Gives [error, table].
upsertOrder(payload, table, shelf) ==
    LET row == payload @@ [id |-> Len(table) + 1]
        err == orderInsertError(row, shelf)
    IN IF err # NULL THEN [error |-> err, table |-> table]
       ELSE [error |-> NULL, table |-> Append(table, row)]

\* .from("orders").update({status}).eq("lemonsqueezy_order_id", lsOrderId),
\* index.ts:124-127: the CHECK of status (part_001:42-50) refuses the whole
\* statement when a row it reaches would break it.  Gives [error, table].
updateOrderStatus(status, lsOrderId, table) ==
    LET reached == {k \in DOMAIN table :
                      "lemonsqueezy_order_id" \in DOMAIN table[k]
                      /\ table[k].lemonsqueezy_order_id = lsOrderId}
    IN IF reached # {}
          /\ status \notin {"pending", "processing", "printed", "shipped", "delivered"}
       THEN [error |-> "check_violation", table |-> table]
       ELSE [error |-> NULL,
             table |-> [k \in DOMAIN table |->
                          IF k \in reached THEN [table[k] EXCEPT !.status = status]
                          ELSE table[k]]]

\* .from("books").update({status}).eq("id", bookId), index.ts:100-103, with
\* the uuid type of id and the CHECK of status (part_001:19-27).  Gives
\* [error, shelf].
updateBookStatus(status, bookId, shelf) ==
    IF bookId \notin BookIds THEN [error |-> "invalid_uuid", shelf |-> shelf]
    ELSE IF bookId \in DOMAIN shelf
            /\ status \notin {"draft", "generating", "ready", "ordered", "shipped"}
    THEN [error |-> "check_violation", shelf |-> shelf]
    ELSE [error |-> NULL,
          shelf |-> [b \in DOMAIN shelf |->
                       IF b = bookId THEN [shelf[b] EXCEPT !.status = status]
                       ELSE shelf[b]]]

\* index.ts:73-117, case "order_created".  Gives the status of the response,
\* the statements sent and the tables left.
orderCreated(event, table, shelf) ==
    IF "custom_data" \notin DOMAIN event
    THEN [status |-> 200, writes |-> <<>>, orders |-> table, books |-> shelf]
    ELSE LET bookId == event.custom_data.book_id
             tierId == event.custom_data.tier_id
             orderData == event.attributes
             o == upsertOrder([book_id |-> bookId, tier |-> tierId,
                               status |-> "processing",
                               price |-> orderData.total \div 100,
                               lemonsqueezy_order_id |-> event.id,
                               customer_email |-> orderData.user_email],
                              table, shelf)
             b == updateBookStatus("ordered", bookId, shelf)
         IN IF o.error # NULL
            THEN [status |-> 500, writes |-> <<"upsert orders">>,
                  orders |-> o.table, books |-> shelf]
            ELSE IF b.error # NULL
            THEN [status |-> 500, writes |-> <<"upsert orders", "update books">>,
                  orders |-> o.table, books |-> b.shelf]
            ELSE [status |-> 200, writes |-> <<"upsert orders", "update books">>,
                  orders |-> o.table, books |-> b.shelf]

\* index.ts:119-133, case "order_refunded": the error of the update is
\* logged and the response is the same.
orderRefunded(event, table, shelf) ==
    LET lsOrderId == event.id
        u == updateOrderStatus("refunded", lsOrderId, table)
    IN [status |-> 200, writes |-> <<"update orders">>, error |-> u.error,
        orders |-> u.table, books |-> shelf]

\* index.ts:51-157, the handler: the response and the tables left.
serve(headers, payload, runtime, table, shelf) ==
    IF "signature" \notin DOMAIN headers \/ headers.signature = <<>>
    THEN [status |-> 401, writes |-> <<>>, orders |-> table, books |-> shelf]
    ELSE IF ~verifySignature(payload, headers.signature, runtime)
    THEN [status |-> 401, writes |-> <<>>, orders |-> table, books |-> shelf]
    ELSE IF ~payload.json
    THEN [status |-> 400, writes |-> <<>>, orders |-> table, books |-> shelf]
    ELSE CASE payload.event_name = "order_created" -> orderCreated(payload, table, shelf)
           [] payload.event_name = "order_refunded" -> orderRefunded(payload, table, shelf)
           [] OTHER -> [status |-> 200, writes |-> <<>>, orders |-> table, books |-> shelf]

\* The order rows and the deliveries of one event the model goes up to.
MaxOrders == 2
MaxDeliveries == 2

\* A row of orders written with the service role outside the webhook (the
\* users of the application have no INSERT policy on orders, part_001:73-75):
\* a whole row, at most one for a Lemon Squeezy order.
InsertOrderRow ==
    /\ ret = NoCall
    /\ Len(orders) < MaxOrders
    /\ \E bookId \in DOMAIN books, link \in {NoFields} \cup {[lemonsqueezy_order_id |-> o] : o \in LemonSqueezyOrderIds} :
          LET res == upsertOrder([book_id |-> bookId, user_id |-> books[bookId].user_id,
                                  tier |-> "premium", price |-> 120,
                                  status |-> "processing"] @@ link,
                                 orders, books)
          IN /\ res.error = NULL
             /\ \A k \in DOMAIN orders :
                   "lemonsqueezy_order_id" \in DOMAIN link /\ "lemonsqueezy_order_id" \in DOMAIN orders[k]
                     => orders[k].lemonsqueezy_order_id # link.lemonsqueezy_order_id
             /\ orders' = res.table
    /\ UNCHANGED <<apiKey, memories, memory_embeddings, pending, inflight, storeCalls, ret>>
    /\ UNCHANGED <<users, books, deliveries, checkoutVars>>

\* index.ts:51-157: a request is delivered and answered.
Serve ==
    /\ ret = NoCall
    /\ \E i \in DOMAIN WebhookBodies, runtime \in Runtimes :
         \E headers \in headersFor(WebhookBodies[i]) :
          LET payload == WebhookBodies[i]
              res == serve(headers, payload, runtime, orders, books)
              counted == payload.json /\ payload.event_name = "order_created"
                         /\ res.status # 401
          IN /\ counted => deliveries[payload.id] < MaxDeliveries
             /\ orders' = res.orders
             /\ books' = res.books
             /\ deliveries' = IF counted
                              THEN [deliveries EXCEPT ![payload.id] = @ + 1]
                              ELSE deliveries
             /\ ret' = [op |-> "webhook", headers |-> headers, payload |-> payload,
                        runtime |-> runtime, status |-> res.status,
                        writes |-> res.writes,
                        changed |-> (res.orders # orders \/ res.books # books)]
                       @@ (IF "error" \in DOMAIN res THEN [error |-> res.error] ELSE NoFields)
    /\ UNCHANGED <<apiKey, memories, memory_embeddings, pending, inflight, storeCalls>>
    /\ UNCHANGED <<users, checkoutVars>>

NextWebhook == InsertOrderRow \/ Serve \/ Return

SpecWebhook == Init /\ [][NextWebhook]_vars

(***************************************************************************)
(* The checkout wizard, src/pages/CheckoutPage.tsx.                        *)
(***************************************************************************)
\* The tiers on offer, OrderSuccessPage.tsx:604 (type BookTier).
BookTiers == {"standard", "premium", "heirloom"}

\* What a text field of the address may be made to hold, and the countries
\* of the select (CheckoutPage.tsx:418-419, the first two).
FieldValues == {"", "x"}
Countries == {"US", "GB"}
TextFields == {"name", "line1", "line2", "city", "state", "postalCode"}

\* The Continue button of the shipping step never disabled.
isShippingValidAlways(t, address) == TRUE

\* CheckoutPage.tsx:131-138
isShippingValid(t, address) ==
    \/ t = "standard"
    \/ /\ address.name # ""
       /\ address.line1 # ""
       /\ address.city # ""
       /\ address.state # ""
       /\ address.postalCode # ""
       /\ address.country # ""

\* CheckoutPage.tsx:197, a tier card is clicked (the cards are on the tier
\* step).
SetTier ==
    /\ step = "tier"
    /\ \E t \in BookTiers : tier' = t
    /\ UNCHANGED <<step, shippingAddress>>
    /\ UNCHANGED <<apiKey, memories, memory_embeddings, pending, inflight, storeCalls, ret>>
    /\ UNCHANGED <<users, shopVars>>

\* CheckoutPage.tsx:300-425, a field of the address is edited (the fields
\* are on the shipping step).
SetShippingAddress ==
    /\ step = "shipping"
    /\ \/ \E field \in TextFields, value \in FieldValues :
             shippingAddress' = [shippingAddress EXCEPT ![field] = value]
       \/ \E value \in Countries :
             shippingAddress' = [shippingAddress EXCEPT !.country = value]
    /\ UNCHANGED <<step, tier>>
    /\ UNCHANGED <<apiKey, memories, memory_embeddings, pending, inflight, storeCalls, ret>>
    /\ UNCHANGED <<users, shopVars>>

\* CheckoutPage.tsx:68-79, handleContinue, from the button of the tier step
\* (275) or that of the shipping step (438-439), disabled while the address
\* is not valid.
HandleContinue ==
    /\ \/ /\ step = "tier"
          /\ step' = IF tier = "standard" THEN "payment" ELSE "shipping"
       \/ /\ step = "shipping"
          /\ isShippingValid(tier, shippingAddress)
          /\ step' = "payment"
    /\ UNCHANGED <<tier, shippingAddress>>
    /\ UNCHANGED <<apiKey, memories, memory_embeddings, pending, inflight, storeCalls, ret>>
    /\ UNCHANGED <<users, shopVars>>

\* CheckoutPage.tsx:430-435, Back on the shipping step; 537-546, Back on the
\* payment step.
Back ==
    /\ \/ /\ step = "shipping"
          /\ step' = "tier"
       \/ /\ step = "payment"
          /\ step' = IF tier = "standard" THEN "tier" ELSE "shipping"
    /\ UNCHANGED <<tier, shippingAddress>>
    /\ UNCHANGED <<apiKey, memories, memory_embeddings, pending, inflight, storeCalls, ret>>
    /\ UNCHANGED <<users, shopVars>>

NextCheckout == SetTier \/ SetShippingAddress \/ HandleContinue \/ Back

SpecCheckout == Init /\ [][NextCheckout]_vars

(***************************************************************************)
(* Properties of the recall path, checked under Spec.                      *)
(***************************************************************************)
\* The similarity the store computes for row k of the table.
similarityOf(k, query_embedding) ==
    One - cosineDistance(memory_embeddings[k].embedding, query_embedding)

\* C1: on every path through findSimilarMemories (the store query succeeds,
\* it returns an error, something throws) no returned result has a
\* similarity <= minSimilarity.
C1_NoResultAtOrBelowMinSimilarity ==
    ret.op = "find" =>
        \A i \in DOMAIN ret.value : ret.value[i].similarity > ret.minSimilarity

\* C2: owner isolation: whether the store query succeeds or fails,
\* findSimilarMemories called with owner A returns only records that are
\* A's: each result is a row of memory_embeddings whose user_id is A.
C2_OnlyRecordsOfTheOwner ==
    ret.op = "find" =>
        \A i \in DOMAIN ret.value :
            \E k \in DOMAIN memory_embeddings :
                /\ memory_embeddings[k].user_id = ret.userId
                /\ memory_embeddings[k].content = ret.value[i].caption
                /\ memory_embeddings[k].month = ret.value[i].month
                /\ memory_embeddings[k].year = ret.value[i].year

\* C5: the list findSimilarMemories returns is in non-increasing similarity
\* order on every path: the rows of the store, the rows after the year
\* filter, the demo fallback.
C5_NonIncreasingSimilarity ==
    ret.op = "find" =>
        \A i \in 1..(Len(ret.value) - 1) :
            ret.value[i].similarity >= ret.value[i + 1].similarity

\* C5 happens: the store's query succeeded and gave two rows of different
\* similarity.
C5_TwoRowsRanked ==
    /\ ret.op = "find"
    /\ ret.rpc = "rows"
    /\ Len(ret.value) >= 2
    /\ ret.value[1].similarity > ret.value[2].similarity

\* C6: findSimilarMemories returns at most `limit` results, and when more
\* than `limit` rows of the owner pass the threshold it returns `limit` of
\* them, none less similar than a row left out.
C6_AtMostLimitTheMostSimilar ==
    ret.op = "find" =>
        /\ Len(ret.value) <= ret.limit
        /\ ret.rpc = "rows" /\ ret.yearFilter = 0 /\ ret.session = ret.userId =>
             LET passing == {k \in DOMAIN memory_embeddings :
                               /\ memory_embeddings[k].user_id = ret.userId
                               /\ similarityOf(k, ret.queryEmbedding) > ret.minSimilarity}
             IN Cardinality(passing) > ret.limit =>
                  /\ Len(ret.value) = ret.limit
                  /\ \A i \in DOMAIN ret.value, k \in passing :
                        similarityOf(k, ret.queryEmbedding) > ret.value[i].similarity
                          => \E j \in DOMAIN ret.value :
                                ret.value[j].similarity = similarityOf(k, ret.queryEmbedding)

\* C9: findSimilarMemories does not reject; when the store returned an error
\* or the call threw it resolves with the static demo memories, and it
\* resolves with the store's own rows only when the query succeeded.
C9_DemoMemoriesWhenQueryUnavailable ==
    ret.op = "find" =>
        /\ ret.status = "resolved"
        /\ ret.rpc \in {"error", "throw", "not_called"}
             => ret.value = getDemoSimilarMemories
        /\ ret.rpc = "rows" => ret.value = ret.data
        /\ ret.value # getDemoSimilarMemories => ret.rpc = "rows"

\* C9 happens: the store returned an error and the call resolved with the
\* demo memories.
C9_ResolvedOnStoreError ==
    /\ ret.op = "find"
    /\ ret.rpc = "error"
    /\ ret.status = "resolved"
    /\ ret.value = getDemoSimilarMemories

\* C11: the read path degrades gracefully: for every outcome of the
\* embedding provider (ok, failure, not configured) and of the store query
\* (rows, no rows, error, exception) buildNarrativeContext resolves to a
\* string and never rejects.
C11_NarrativeContextAlwaysResolves ==
    ret.op = "context" =>
        /\ ret.status = "resolved"
        /\ ret.value \in STRING

\* C11 happens: the provider failed, the store's query threw, and the
\* context was built all the same.
C11_ResolvedThoughQueryThrew ==
    /\ ret.op = "context"
    /\ ret.find.rpc = "throw"
    /\ apiKey
    /\ ret.status = "resolved"
    /\ ret.value # ""

\* C17: buildNarrativeContext returns the empty string if and only if the
\* list of recalled memories is empty; for a non-empty list it returns a
\* non-empty block.
C17_EmptyContextIffNothingRecalled ==
    ret.op = "context" /\ ret.status = "resolved" =>
        /\ ret.value = "" <=> Len(ret.find.value) = 0
        /\ Len(ret.find.value) > 0 => Len(ret.value) > 0

\* C17 happens: the store's query succeeded with no row and the context is
\* the empty string.
C17_NothingRecalledEmptyContext ==
    /\ ret.op = "context"
    /\ ret.find.rpc = "rows"
    /\ Len(ret.find.value) = 0
    /\ ret.value = ""

\* C18: empty recall is an empty list, not substitute data: when the store
\* can be reached and the owner has no stored record, or no record of the
\* owner is above the threshold, findSimilarMemories returns an empty list.
C18_EmptyRecallIsEmptyList ==
    /\ ret.op = "find"
    /\ ret.rpc # "throw"
    /\ ~(ret.rpc = "error" /\ ret.error = "unavailable")
    /\ \A k \in DOMAIN memory_embeddings :
          memory_embeddings[k].user_id = ret.userId =>
             /\ "queryEmbedding" \in DOMAIN ret
             /\ similarityOf(k, ret.queryEmbedding) <= ret.minSimilarity
    => ret.value = <<>>

\* C19: when yearFilter is given the year restriction comes before ranking
\* and truncation: the result is the top `limit` of the owner's records
\* that match the year and exceed the threshold, so that no record of the
\* year is dropped because records of other years filled the top `limit`.
C19_YearFilterBeforeTruncation ==
    ret.op = "find" /\ ret.rpc = "rows" /\ ret.yearFilter # 0 /\ ret.session = ret.userId =>
        LET matching == {k \in DOMAIN memory_embeddings :
                           /\ memory_embeddings[k].user_id = ret.userId
                           /\ memory_embeddings[k].year = ret.yearFilter
                           /\ similarityOf(k, ret.queryEmbedding) > ret.minSimilarity}
        IN /\ Len(ret.value) = Min(ret.limit, Cardinality(matching))
           /\ \A i \in DOMAIN ret.value : ret.value[i].year = ret.yearFilter
           /\ \A i \in DOMAIN ret.value, k \in matching :
                 similarityOf(k, ret.queryEmbedding) > ret.value[i].similarity
                   => \E j \in DOMAIN ret.value :
                         ret.value[j].similarity = similarityOf(k, ret.queryEmbedding)

\* C21: ties are broken deterministically: when two candidates have the
\* same similarity to the query, findSimilarMemories returns the one with
\* the more recent created_at first, so the result is the one list ranked
\* by similarity and then by created_at, most recent first.
C21_TiesMostRecentFirst ==
    ret.op = "find" /\ ret.rpc = "rows" /\ ret.yearFilter = 0 =>
        LET S == matchCandidates(ret.session, memory_embeddings, ret.queryEmbedding,
                                 ret.minSimilarity, ret.userId)
            recentFirst ==
              {o \in orderings(S, memory_embeddings, ret.queryEmbedding) :
                 \A i \in DOMAIN o, j \in DOMAIN o :
                    /\ i < j
                    /\ similarityOf(o[i], ret.queryEmbedding) = similarityOf(o[j], ret.queryEmbedding)
                    => memory_embeddings[o[i]].created_at > memory_embeddings[o[j]].created_at}
        IN \E o \in recentFirst :
              ret.value = [i \in 1..Min(ret.limit, Len(o)) |->
                             matchRow(ret.session, memory_embeddings[o[i]],
                                      ret.queryEmbedding, memories)]

(***************************************************************************)
(* Properties of the write path, checked under SpecStore.                  *)
(***************************************************************************)
\* The rows memory_embeddings holds for memory id.
recordsOf(id) ==
    {k \in DOMAIN memory_embeddings :
        /\ "memory_id" \in DOMAIN memory_embeddings[k]
        /\ memory_embeddings[k].memory_id = id}

\* C3: upsert idempotence: once storeMemoryEmbedding has been called twice,
\* one call after the other, with the same memoryId and caption, there is
\* exactly one memory_embeddings record for that memoryId.
C3_OneRecordAfterTwoStores ==
    \A id \in DOMAIN storeCalls :
        storeCalls[id] >= 2 => Cardinality(recordsOf(id)) = 1

C7_AlwaysDimensionsComponents ==
    ret.op = "embed" /\ ret.status = "resolved" => ret.value.dim = dimensions

\* C8: for every failure of the provider call (network error, non-2xx
\* response, malformed JSON body, body without an embedding) generateEmbedding
\* resolves with the fallback embedding of the same text and never rejects.
C8_ProviderFailureNeverSurfaces ==
    ret.op = "embed" /\ ret.provider \in ProviderFailures =>
        /\ ret.status = "resolved"
        /\ ret.value = generateSemanticMockEmbedding(ret.text).vec

\* C10: storeMemoryEmbedding never rejects; it resolves to false when the
\* store reports an error or a step throws, and to true only when the upsert
\* returned no error.
C10_StoreFailureIsNonFatal ==
    ret.op = "store" =>
        /\ ret.status = "resolved"
        /\ ret.upsert \in {"not_called", "throw"} => ret.value = FALSE
        /\ ret.upsert \in {"reached", "error"} => ret.value = (ret.error = NULL)

\* C10 happens: the store reported an error to a call whose embedding was
\* made, and the call resolved to false.
C10_ResolvedFalseOnStoreError ==
    /\ ret.op = "store"
    /\ ret.upsert = "error"
    /\ ret.status = "resolved"
    /\ ret.value = FALSE

sumOfSquares(v) == dotProduct(v, v)

\* What the sum of squares of a unit vector may miss One * One by, its
\* components being cut to thousandths.
NormTolerance == (One * One) \div 100

C15_DegenerateTextGivesFiniteNonZeroVector ==
    ret.op = "embed" /\ ret.provider # "ok" /\ MagnitudeOf[ret.text] = 0 =>
        /\ ret.status = "resolved"
        /\ ret.value.dim = dimensions
        /\ DOMAIN ret.value.at \subseteq 0..(dimensions - 1)
        /\ \A i \in DOMAIN ret.value.at : ret.value.at[i] \in (-One)..One
        /\ \E i \in DOMAIN ret.value.at : ret.value.at[i] # 0

\* C15 happens: generateEmbedding("") fell back and resolved.
C15_EmptyStringEmbedded ==
    /\ ret.op = "embed"
    /\ ret.provider # "ok"
    /\ ret.text = EmptyText
    /\ MagnitudeOf[ret.text] = 0
    /\ ret.status = "resolved"

\* C20: in the save flow the memory row is persisted first and the call of
\* storeMemoryEmbedding is started only when that insert worked; the save
\* is reported while the call is still outstanding, and the row stays
\* saved whatever the call returns (true, false) or however it fails.
C20_SaveBeforeEmbeddingAndNotAwaited ==
    /\ \A c \in pending :
          /\ c.memoryId \in DOMAIN memories
          /\ memories[c.memoryId].user_id = c.session
          /\ memories[c.memoryId].caption = c.caption
    /\ ret.op = "save" =>
          IF ret.status = "saved"
          THEN /\ ret.memoryId = Len(memories)
               /\ memories[ret.memoryId].user_id = ret.session
               /\ \E c \in pending : c.memoryId = ret.memoryId
               /\ storeCalls[ret.memoryId] = 0
          ELSE /\ "memoryId" \notin DOMAIN ret
               /\ Len(storeCalls) = Len(memories)
    /\ ret.op = "store" =>
          /\ ret.memoryId \in DOMAIN memories
          /\ memories[ret.memoryId].caption = ret.caption
          /\ storeCalls[ret.memoryId] >= 1

\* A save is reported as done while its embedding call has not completed.
C20_SavedWithEmbeddingOutstanding ==
    /\ ret.op = "save"
    /\ ret.status = "saved"
    /\ \E c \in pending : c.memoryId = ret.memoryId
    /\ storeCalls[ret.memoryId] = 0

(***************************************************************************)
(* Properties of overlapping writes, checked under SpecConcurrent.         *)
(***************************************************************************)
\* C12: concurrent writes converge: when two or more storeMemoryEmbedding
\* calls for the same memoryId have overlapped and all have completed, the
\* store holds exactly one record for that memoryId, the one written by the
\* call whose write was applied last.
C12_ConcurrentStoresConverge ==
    /\ ret.op = "store"
    /\ ret.overlapped
    /\ storeCalls[ret.memoryId] >= 2
    /\ inflightOf(ret.memoryId) = {}
    => /\ Cardinality(recordsOf(ret.memoryId)) = 1
       /\ \A k \in recordsOf(ret.memoryId) :
             /\ "payload" \in DOMAIN ret
             /\ memory_embeddings[k].embedding = ret.payload.embedding
             /\ memory_embeddings[k].content = ret.payload.content

(***************************************************************************)
(* Properties of cosineSimilarity, checked under SpecSimilarity.           *)
(***************************************************************************)
\* C16: for all pairs of normalized vectors a, b of equal length,
\* cosineSimilarity(a, b) is a number in [-1, 1].
C16_CosineSimilarityWithinMinusOneAndOne ==
    ret.op = "cosine" /\ ret.a.dim = ret.b.dim =>
        /\ ret.kind = "number"
        /\ ret.value >= -One
        /\ ret.value <= One

(***************************************************************************)
(* Properties of the fallback embedding, checked under SpecFallback.       *)
(***************************************************************************)
\* C23: for every token the hash bucket index is within the vector's
\* bounds and within the reserved range 300..383, outside every index of
\* the keyword table (all within 0..271), also when the 32-bit rolling hash
\* overflows and is negative, the value -2^31 included.
C23_BucketWithinReservedRange ==
    /\ keywordIndices \subseteq 0..271
    /\ ret.op = "hash" =>
          /\ ret.hash >= 0 - 2147483647 - 1 /\ ret.hash <= 2147483647
          /\ ret.baseDim \in 0..(dimensions - 1)
          /\ ret.baseDim \in 300..383
          /\ ret.baseDim \notin keywordIndices
    /\ ret.op = "mock" /\ ~ret.result.threw =>
          \A k \in DOMAIN ret.buckets :
             ret.buckets[k] \in 300..383 /\ ret.buckets[k] \notin keywordIndices

\* C23 happens: the hash of "polygenelubricants" is -2^31 and its bucket
\* is 300 + 2^31 % 84 = 344.
C23_BucketOfMostNegativeHash ==
    /\ ret.op = "hash"
    /\ ret.word = WordPolygenelubricants
    /\ ret.hash = 0 - 2147483647 - 1
    /\ ret.baseDim = 344

\* C25: no token's hash bucket is one of the feature indices 380..383, so
\* every token's +0.5 is still in the vector before normalisation, and the
\* feature indices hold the four text characteristics and nothing else.
C25_NoBucketOnAFeatureIndex ==
    ret.op = "mock" /\ ~ret.result.threw =>
        /\ \A k \in DOMAIN ret.buckets :
              /\ ret.buckets[k] \notin FeatureIndices
              /\ ret.embedding[ret.buckets[k]] >= One \div 2
        /\ ret.embedding[380] = Min((Len(ret.words) * One) \div 20, One)
        /\ ret.embedding[381] = (IF includes(ret.text, "!") THEN One ELSE 0)
        /\ ret.embedding[382] = (IF includes(ret.text, "?") THEN One ELSE 0)

\* Characters that are the same letter in either case.
sameLetter(c, d) ==
    c = d \/ \E i \in DOMAIN LowerChars : {c, d} = {LowerChars[i], UpperChars[i]}

\* Texts that differ in letter case at most.
differOnlyInCase(t, u) ==
    Len(t) = Len(u) /\ \A i \in DOMAIN t : sameLetter(t[i], u[i])

\* generateSemanticMockEmbedding, tabulated for the texts of SpecFallback.
FallbackEmbeddingOf == [t \in FallbackTexts |-> generateSemanticMockEmbedding(t)]

\* C26: the fallback embedding is case-insensitive: two texts that differ
\* only in letter case give the same vector (or fail alike).
C26_FallbackIsCaseInsensitive ==
    ret.op = "mock" =>
        \A t \in FallbackTexts :
            differOnlyInCase(t, ret.text) => FallbackEmbeddingOf[t] = ret.result

\* C26 happens: "A BEACH ADVENTURE!" was embedded, and gave the vector of
\* "a beach adventure!", with the keyword indices of beach and adventure.
C26_UpperCaseTextEmbedded ==
    /\ ret.op = "mock"
    /\ ret.text = TextBeachUpper
    /\ ~ret.result.threw
    /\ ret.result = FallbackEmbeddingOf[TextBeachLower]
    /\ {100, 101, 102, 125, 126, 127} \subseteq DOMAIN ret.result.vec.at

(***************************************************************************)
(* Properties of the narrative text, checked under SpecNarrative.          *)
(***************************************************************************)
\* The name of month m, January being 0; "Unknown" for anything else.
monthNameOf(m) ==
    CASE m = 0 -> "January" [] m = 1 -> "February" [] m = 2 -> "March"
      [] m = 3 -> "April" [] m = 4 -> "May" [] m = 5 -> "June"
      [] m = 6 -> "July" [] m = 7 -> "August" [] m = 8 -> "September"
      [] m = 9 -> "October" [] m = 10 -> "November" [] m = 11 -> "December"
      [] OTHER -> "Unknown"

\* The line of the i-th recalled memory.
lineOf(m, i) ==
    "[Memory " \o ToString(i) \o " - "
    \o (IF "month" \in DOMAIN m THEN monthNameOf(m.month) ELSE "Unknown")
    \o "]: " \o Join(m.caption)

RECURSIVE linesFrom(_, _)
\* The lines of the memories from the i-th on, one under the other.
linesFrom(mems, i) ==
    IF i = Len(mems) THEN lineOf(mems[i], i)
    ELSE lineOf(mems[i], i) \o "\n" \o linesFrom(mems, i + 1)

\* C22: for a non-empty list buildNarrativeContext emits one line per
\* recalled memory, in the order of the list and numbered from 1, each with
\* the name of the memory's month (0..11 are January..December, anything
\* else is "Unknown") and its caption, and then the instruction sentence.
C22_OneNumberedLinePerMemory ==
    /\ ret.op = "month" => ret.value = monthNameOf(ret.month)
    /\ ret.op = "narrative" /\ Len(ret.similarMemories) > 0 =>
          ret.value =
            "The following are real memories from this child's year that should be woven into the story:"
            \o "\n\n" \o linesFrom(ret.similarMemories, 1) \o "\n\n"
            \o "Use these memories naturally within the narrative to create a personalized story that references real experiences."

\* C22 happens: a list of two memories, of month 0 and of month 12, gave a
\* block whose two lines are numbered 1 and 2 and name January and Unknown.
C22_TwoMemoriesJanuaryAndUnknown ==
    /\ ret.op = "narrative"
    /\ Len(ret.similarMemories) = 2
    /\ ret.similarMemories[1] = [caption |-> CaptionBeachAdventure, month |-> 0]
    /\ ret.similarMemories[2] = [caption |-> CaptionFirstDay, month |-> 12]
    /\ ret.value =
         "The following are real memories from this child's year that should be woven into the story:"
         \o "\n\n[Memory 1 - January]: A beach adventure!"
         \o "\n[Memory 2 - Unknown]: First day at the beach, building sandcastles\n\n"
         \o "Use these memories naturally within the narrative to create a personalized story that references real experiences."

(***************************************************************************)
(* Properties of deletion, checked under SpecLifecycle.                    *)
(***************************************************************************)
\* Every embedding row belongs to an account that exists and, when it
\* names a memory, to a memory that exists.
embeddingsReferToWhatExists ==
    \A k \in DOMAIN memory_embeddings :
        /\ memory_embeddings[k].user_id \in users
        /\ "memory_id" \in DOMAIN memory_embeddings[k]
             => \E j \in DOMAIN memories :
                   memories[j].id = memory_embeddings[k].memory_id

\* An embedding row that a step removes went with its memory, with its
\* owner's account, or by its owner's own DELETE.
removedOnlyByDeletion ==
    \A r \in Range(memory_embeddings) :
        r \notin Range(memory_embeddings') =>
            \/ r.user_id \notin users'
            \/ /\ "memory_id" \in DOMAIN r
               /\ ~\E j \in DOMAIN memories' : memories'[j].id = r.memory_id
            \/ /\ ret'.op = "deleteEmbedding"
               /\ ret'.session = r.user_id
               /\ ret'.id = r.id

\* C24: an embedding record never outlives its memory or its owner: once
\* the memory (or the owner's account) is deleted no memory_embeddings row
\* referring to it remains; and an embedding record is removed only by such
\* a deletion or by the owner's own delete.
C24_EmbeddingNeverOutlivesMemoryOrOwner ==
    [](embeddingsReferToWhatExists) /\ [][removedOnlyByDeletion]_vars

\* C24 happens: a memory that had an embedding row was deleted by its
\* owner, and the row went with it.
C24_MemoryDeletedWithItsEmbedding ==
    /\ ret.op = "deleteMemory"
    /\ ret.deleted = 1
    /\ ret.cascaded >= 1
    /\ ~\E k \in DOMAIN memory_embeddings :
          /\ "memory_id" \in DOMAIN memory_embeddings[k]
          /\ memory_embeddings[k].memory_id = ret.memoryId

(***************************************************************************)
(* Properties of the payment webhook, checked under SpecWebhook.           *)
(***************************************************************************)
\* Two texts of hexadecimal digits that are the same but for the case of
\* the digits.
sameHex(a, b) == Len(a) = Len(b) /\ \A i \in DOMAIN a : sameLetter(a[i], b[i])

\* The request carries an x-signature that is the HMAC of its body.
carriesTheHmac(headers, payload) ==
    /\ "signature" \in DOMAIN headers
    /\ sameHex(headers.signature, toHex(hmacDigest(payload)))

\* C27: the webhook performs no database write unless the request carries
\* an x-signature header equal to the HMAC-SHA256 of the raw body under the
\* webhook secret: a request whose signature is missing or is not that is
\* answered 401 and leaves orders and books unchanged.
C27_NoWriteWithoutTheHmac ==
    ret.op = "webhook" /\ ~carriesTheHmac(ret.headers, ret.payload) =>
        /\ ret.status = 401
        /\ ret.writes = <<>>
        /\ ~ret.changed

\* C28: after the webhook has answered 200 to a validly signed
\* order_refunded event for an existing order, that order's status is
\* "refunded".
C28_RefundedAfter200 ==
    /\ ret.op = "webhook"
    /\ ret.status = 200
    /\ carriesTheHmac(ret.headers, ret.payload)
    /\ ret.payload.json
    /\ ret.payload.event_name = "order_refunded"
    => \A k \in DOMAIN orders :
          "lemonsqueezy_order_id" \in DOMAIN orders[k]
          /\ orders[k].lemonsqueezy_order_id = ret.payload.id
            => orders[k].status = "refunded"

paymentHasAnAddress ==
    /\ step = "payment" /\ tier # "standard" =>
          \A field \in {"name", "line1", "city", "state", "postalCode", "country"} :
              shippingAddress[field] # ""
    /\ step = "shipping" => tier # "standard"

\* The standard tier leaves the tier step for the payment step, and the
\* payment step is entered from the tier step by the standard tier only.
standardGoesStraightToPayment ==
    /\ step = "tier" /\ tier = "standard" /\ step' # "tier" => step' = "payment"
    /\ step = "tier" /\ step' = "payment" => tier = "standard"

\* C30: after any sequence of tier selections, Continue and Back actions
\* and address edits, whenever the wizard is on the payment step with a
\* premium or heirloom tier every required shipping field (name, line1,
\* city, state, postalCode, country) is non-empty; the standard tier reaches
\* payment directly from tier selection and never visits the shipping step.
C30_PaymentStepHasAValidAddress ==
    [](paymentHasAnAddress) /\ [][standardGoesStraightToPayment]_vars

\* C30 happens: the wizard is on the payment step with the premium tier and
\* an address filled in (line2 left empty).
C30_PremiumOnPaymentStep ==
    /\ step = "payment"
    /\ tier = "premium"
    /\ shippingAddress.name = "x"
    /\ shippingAddress.line2 = ""
    /\ shippingAddress.country = "GB"

=============================================================================
